---------------------------- MODULE Spec2Model ----------------------------
(***************************************************************************)
(* Model of the settings-merge core of install.py: dedupe_hooks,           *)
(* merge_settings, update_settings_file and the install section of main.   *)
(*                                                                         *)
(* A Python dict is a TLA+ function (dict equality is extensional, as ==   *)
(* is in Python); a Python list is a sequence.  Where the code relies on   *)
(* dict insertion order (by_matcher, dict.fromkeys) the dict is a sequence *)
(* of pairs.  Every JSON value carries a `kind` so that values of the      *)
(* wrong shape can be passed to the code.                                  *)
(***************************************************************************)
EXTENDS Integers, Sequences, FiniteSets, TLC

\* ------------------------------------------------------------------------
\* Bounds of the explored inputs
\* ------------------------------------------------------------------------
MaxHooks == 2
MaxPerms == 2
MaxDocs == 3
MaxItems == 2

\* ------------------------------------------------------------------------
\* Atoms
\* ------------------------------------------------------------------------
HookTypes == {"PreToolUse", "PostToolUse"}
Matchers == {"Bash", "Edit"}
PermTypes == {"allow", "deny", "ask"}
PermStrings == {"Skill(a)", "Skill(b)", "Bash(ls)"}
OtherKeys == {"model"}
OtherValues == {"v1", "v2"}

\* ------------------------------------------------------------------------
\* Sequence helpers
\* ------------------------------------------------------------------------
SeqsUpTo(S, n) == UNION {[1..k -> S] : k \in 0..n}

Range(s) == {s[i] : i \in DOMAIN s}

RECURSIVE ConcatAll(_)
ConcatAll(ss) == IF ss = <<>> THEN <<>> ELSE Head(ss) \o ConcatAll(Tail(ss))

\* ------------------------------------------------------------------------
\* Documents
\* ------------------------------------------------------------------------
\* {'type': 'command', 'command': c, 'statusMessage': s}; hasCommand is
\* FALSE for an entry without the `command` key.
HookEntry(c, s) == [hasCommand |-> TRUE, command |-> c, statusMessage |-> s]

\* {'matcher': m, 'hooks': hs}; hasMatcher is FALSE for a group without
\* the `matcher` key.
MatcherGroup(m, hs) == [hasMatcher |-> TRUE, matcher |-> m, hooks |-> hs]

\* A JSON list value of the expected shape.
ListVal(s) == [kind |-> "list", list |-> s]

AbsentSection == [kind |-> "absent", m |-> <<>>]
MapSection(f) == [kind |-> "map", m |-> f]

\* A settings dict: `hooks` and `permissions` sections and the remaining
\* (passthrough) keys.  isDict is FALSE for a JSON value that is no object.
Document(h, p, o) == [isDict |-> TRUE, hooks |-> h, permissions |-> p, other |-> o]

EmptyDoc == Document(AbsentSection, AbsentSection, <<>>)

\* ------------------------------------------------------------------------
\* dedupe_hooks
\* ------------------------------------------------------------------------
\* A key that tells apart entries with different status messages.
CommandKey_with_message(hook) ==
    IF hook.hasCommand THEN hook.command \o "|" \o hook.statusMessage ELSE ""

\* hook.get('command', '')
CommandKey(hook) == IF hook.hasCommand THEN hook.command ELSE ""

RECURSIVE dedupe_loop(_, _, _)
dedupe_loop(hook_list, seen, result) ==
    IF hook_list = <<>> THEN result
    ELSE LET hook == Head(hook_list)
             key == CommandKey(hook)
         IN  IF key \notin seen
             THEN dedupe_loop(Tail(hook_list), seen \cup {key}, Append(result, hook))
             ELSE dedupe_loop(Tail(hook_list), seen, result)

\* No deduplication.
dedupe_hooks_keep_all(hook_list) == hook_list

dedupe_hooks(hook_list) == dedupe_loop(hook_list, {}, <<>>)

\* ------------------------------------------------------------------------
\* merge_settings
\* ------------------------------------------------------------------------
\* list(dict.fromkeys(xs)): first occurrences, in order.
RECURSIVE fromkeys_loop(_, _)
fromkeys_loop(xs, result) ==
    IF xs = <<>> THEN result
    ELSE IF Head(xs) \in Range(result)
         THEN fromkeys_loop(Tail(xs), result)
         ELSE fromkeys_loop(Tail(xs), Append(result, Head(xs)))

\* No deduplication.
dedupe_permissions_keep_all(xs) == xs

dedupe_permissions(xs) == fromkeys_loop(xs, <<>>)

\* list.extend(value): a list extends by its items, a str by its characters
\* (held in `list`), anything else is not iterable.
Extendable(v) == v.kind \in {"list", "str"}

\* entry.get('matcher', '')
MatcherKey(entry) == IF entry.hasMatcher THEN entry.matcher ELSE ""

\* One item per given group, groups with the same matcher not merged.
group_by_matcher_ungrouped(entries, by_matcher) ==
    by_matcher \o [i \in DOMAIN entries |->
                     [matcher |-> MatcherKey(entries[i]), hooks |-> entries[i].hooks]]

\* The by_matcher dict of one hook type, as the sequence of its items in
\* insertion order.
RECURSIVE group_by_matcher(_, _)
group_by_matcher(entries, by_matcher) ==
    IF entries = <<>> THEN by_matcher
    ELSE LET entry == Head(entries)
             matcher == MatcherKey(entry)
             known == \E i \in DOMAIN by_matcher : by_matcher[i].matcher = matcher
             opened == IF known THEN by_matcher
                       ELSE Append(by_matcher, [matcher |-> matcher, hooks |-> <<>>])
             extended == [i \in DOMAIN opened |->
                            IF opened[i].matcher = matcher
                            THEN [opened[i] EXCEPT !.hooks = @ \o entry.hooks]
                            ELSE opened[i]]
         IN  group_by_matcher(Tail(entries), extended)

\* The rebuilt list of one hook type.
rebuild_hook_type(entries) ==
    LET by_matcher == group_by_matcher(entries, <<>>)
    IN  [i \in DOMAIN by_matcher |->
            MatcherGroup(by_matcher[i].matcher, dedupe_hooks(by_matcher[i].hooks))]

\* What one settings dict raises in the first loop, or later through the
\* values it put into result.
Raises(settings) ==
    \/ ~settings.isDict
    \/ settings.hooks.kind = "scalar"
    \/ /\ settings.hooks.kind = "map"
       /\ \E t \in DOMAIN settings.hooks.m : ~Extendable(settings.hooks.m[t])
    \/ /\ settings.hooks.kind = "map"
       /\ \E t \in DOMAIN settings.hooks.m :
            settings.hooks.m[t].kind = "str" /\ settings.hooks.m[t].list # <<>>
    \/ settings.permissions.kind = "scalar"
    \/ /\ settings.permissions.kind = "map"
       /\ \E k \in DOMAIN settings.permissions.m :
            k \notin PermTypes \/ ~Extendable(settings.permissions.m[k])

\* result['hooks'][hook_type] = hook_list: a later document replaces the
\* groups of a hook type.
fold_one_overwrite(result, settings) ==
    LET hooks ==
            IF settings.hooks.kind = "map"
            THEN LET old == result.hooks.m
                     new == settings.hooks.m
                 IN  MapSection(
                       [t \in DOMAIN old \cup DOMAIN new |->
                          IF t \in DOMAIN new THEN new[t].list ELSE old[t]])
            ELSE result.hooks
        permissions ==
            IF settings.permissions.kind = "map"
            THEN LET old == IF result.permissions.kind = "map"
                            THEN result.permissions.m
                            ELSE [k \in PermTypes |-> <<>>]
                     new == settings.permissions.m
                 IN  MapSection(
                       [k \in PermTypes |->
                          old[k] \o (IF k \in DOMAIN new THEN new[k].list ELSE <<>>)])
            ELSE result.permissions
        other ==
            [k \in DOMAIN result.other \cup DOMAIN settings.other |->
                IF k \in DOMAIN settings.other THEN settings.other[k]
                ELSE result.other[k]]
    IN  Document(hooks, permissions, other)

\* The body of the first loop for one settings dict.
fold_one(result, settings) ==
    LET hooks ==
            IF settings.hooks.kind = "map"
            THEN LET old == result.hooks.m
                     new == settings.hooks.m
                 IN  MapSection(
                       [t \in DOMAIN old \cup DOMAIN new |->
                          (IF t \in DOMAIN old THEN old[t] ELSE <<>>)
                          \o (IF t \in DOMAIN new THEN new[t].list ELSE <<>>)])
            ELSE result.hooks
        permissions ==
            IF settings.permissions.kind = "map"
            THEN LET old == IF result.permissions.kind = "map"
                            THEN result.permissions.m
                            ELSE [k \in PermTypes |-> <<>>]
                     new == settings.permissions.m
                 IN  MapSection(
                       [k \in PermTypes |->
                          old[k] \o (IF k \in DOMAIN new THEN new[k].list ELSE <<>>)])
            ELSE result.permissions
        other ==
            [k \in DOMAIN result.other \cup DOMAIN settings.other |->
                IF k \in DOMAIN settings.other THEN settings.other[k]
                ELSE result.other[k]]
    IN  Document(hooks, permissions, other)

RECURSIVE fold_all(_, _)
fold_all(result, settings_dicts) ==
    IF settings_dicts = <<>> THEN result
    ELSE fold_all(fold_one(result, Head(settings_dicts)), Tail(settings_dicts))

\* Empty permission lists left out of the result.
finish_drop_empty(result) ==
    LET hooks ==
            IF result.hooks.kind = "map"
            THEN MapSection([t \in DOMAIN result.hooks.m |->
                               ListVal(rebuild_hook_type(result.hooks.m[t]))])
            ELSE result.hooks
        permissions ==
            IF result.permissions.kind = "map"
            THEN MapSection([k \in {q \in DOMAIN result.permissions.m :
                                      result.permissions.m[q] # <<>>} |->
                               ListVal(dedupe_permissions(result.permissions.m[k]))])
            ELSE result.permissions
    IN  Document(hooks, permissions, result.other)

\* The two deduplication passes on the folded result.
finish(result) ==
    LET hooks ==
            IF result.hooks.kind = "map"
            THEN MapSection([t \in DOMAIN result.hooks.m |->
                               ListVal(rebuild_hook_type(result.hooks.m[t]))])
            ELSE result.hooks
        permissions ==
            IF result.permissions.kind = "map"
            THEN MapSection([k \in DOMAIN result.permissions.m |->
                               ListVal(dedupe_permissions(result.permissions.m[k]))])
            ELSE result.permissions
    IN  Document(hooks, permissions, result.other)

\* merge_settings(*settings_dicts): err is TRUE when the call raises, and
\* doc is the returned dict otherwise.
merge_settings(settings_dicts) ==
    IF \E i \in DOMAIN settings_dicts : Raises(settings_dicts[i])
    THEN [err |-> TRUE, doc |-> EmptyDoc]
    ELSE [err |-> FALSE, doc |-> finish(fold_all(EmptyDoc, settings_dicts))]

\* ------------------------------------------------------------------------
\* update_settings_file and the fragment producers
\* ------------------------------------------------------------------------
\* bool(d) of a dict: it has at least one key.
NonEmptyDict(d) ==
    d.hooks.kind # "absent" \/ d.permissions.kind # "absent" \/ DOMAIN d.other # {}

\* The content of settings.local.json: no file, text that json.loads
\* rejects, or the JSON text of a document.  json.dumps writes dicts, lists
\* and strings and json.loads reads them back as the same values, so the
\* text is held as the value it encodes.
AbsentFile == [kind |-> "absent", doc |-> EmptyDoc]
GarbageFile == [kind |-> "garbage", doc |-> EmptyDoc]
JsonFile(d) == [kind |-> "json", doc |-> d]

\* The new settings merged first.
merge_into_existing_swapped(old, new_settings) == merge_settings(<<new_settings, old>>)

\* merge_settings(existing, new_settings) of update_settings_file
merge_into_existing(old, new_settings) == merge_settings(<<old, new_settings>>)

\* The entries of hooks.json: file is stem.ext.
HookDefs ==
    {[stem |-> "x", ext |-> "py", type |-> "PreToolUse", matcher |-> "Bash",
      name |-> "Check x", hasStatusMessage |-> FALSE, statusMessage |-> ""],
     [stem |-> "y", ext |-> "sh", type |-> "PreToolUse", matcher |-> "Bash",
      name |-> "Y", hasStatusMessage |-> TRUE, statusMessage |-> "Check y"],
     [stem |-> "z", ext |-> "py", type |-> "PostToolUse", matcher |-> "Edit",
      name |-> "Check z", hasStatusMessage |-> FALSE, statusMessage |-> ""]}

\* The stems of the files of commands/.
CommandStems == {"a", "b"}

hook_command(hook) ==
    (IF hook.ext = "py" THEN "python3" ELSE "bash")
        \o " .claude/hooks/" \o hook.stem \o "." \o hook.ext

hook_entry(hook) ==
    HookEntry(hook_command(hook),
              IF hook.hasStatusMessage THEN hook.statusMessage ELSE hook.name)

\* target[matcher].append(entry) on an insertion-ordered dict.
append_to_matcher(target, matcher, entry) ==
    LET opened == IF \E i \in DOMAIN target : target[i].matcher = matcher
                  THEN target
                  ELSE Append(target, MatcherGroup(matcher, <<>>))
    IN  [i \in DOMAIN opened |->
            IF opened[i].matcher = matcher
            THEN [opened[i] EXCEPT !.hooks = Append(@, entry)]
            ELSE opened[i]]

RECURSIVE generate_loop(_, _, _)
generate_loop(hooks, pre_tool_use, post_tool_use) ==
    IF hooks = <<>> THEN [pre |-> pre_tool_use, post |-> post_tool_use]
    ELSE LET hook == Head(hooks)
         IN  IF hook.type = "PreToolUse"
             THEN generate_loop(Tail(hooks),
                                append_to_matcher(pre_tool_use, hook.matcher, hook_entry(hook)),
                                post_tool_use)
             ELSE generate_loop(Tail(hooks), pre_tool_use,
                                append_to_matcher(post_tool_use, hook.matcher, hook_entry(hook)))

\* HookManager._generate_settings
generate_settings(hooks) ==
    LET targets == generate_loop(hooks, <<>>, <<>>)
        types == {t \in HookTypes :
                    \/ t = "PreToolUse" /\ targets.pre # <<>>
                    \/ t = "PostToolUse" /\ targets.post # <<>>}
        section == [t \in types |->
                      IF t = "PreToolUse" THEN ListVal(targets.pre) ELSE ListVal(targets.post)]
    IN  IF types # {} THEN Document(MapSection(section), AbsentSection, <<>>) ELSE EmptyDoc

\* HookManager.install, for the hooks get_hooks selected.
install_hooks(hooks) == IF hooks = <<>> THEN EmptyDoc ELSE generate_settings(hooks)

\* CommandManager.install, for the commands get_commands selected.
install_commands(commands) ==
    IF commands = <<>> THEN EmptyDoc
    ELSE Document(AbsentSection,
                  MapSection([k \in {"allow"} |->
                      ListVal([i \in DOMAIN commands |-> "Skill(" \o commands[i] \o ")"])]),
                  <<>>)

\* ------------------------------------------------------------------------
\* Input documents
\* ------------------------------------------------------------------------
EntryPool ==
    {HookEntry("python3 .claude/hooks/x.py", "Check x"),
     HookEntry("python3 .claude/hooks/x.py", "Recheck x"),
     HookEntry("bash .claude/hooks/y.sh", "Check y"),
     HookEntry("python3 .claude/hooks/z.py", "Check z")}

\* Deep documents: one section explored in depth.
DeepGroups == {MatcherGroup(m, hs) : m \in Matchers, hs \in SeqsUpTo(EntryPool, MaxHooks)}
FlatGroups == {MatcherGroup(m, hs) : m \in Matchers, hs \in SeqsUpTo(EntryPool, 1)}

DeepHookLists ==
    {<<>>} \cup {<<g>> : g \in DeepGroups}
           \cup {<<g1, g2>> : g1 \in FlatGroups, g2 \in FlatGroups}

DeepHookSections ==
    {MapSection(<<>>)}
    \cup {MapSection([t \in {ht} |-> ListVal(gl)]) : ht \in HookTypes, gl \in DeepHookLists}
    \cup {MapSection([t \in HookTypes |->
                        IF t = "PreToolUse" THEN ListVal(<<g1>>) ELSE ListVal(<<g2>>)]) :
            g1 \in FlatGroups, g2 \in FlatGroups}

DeepPermSections ==
    {MapSection([k \in ks |->
                   IF k = "allow" THEN ListVal(al)
                   ELSE IF k = "deny" THEN ListVal(<<"Bash(ls)">>) ELSE ListVal(<<>>)]) :
        ks \in SUBSET PermTypes, al \in SeqsUpTo(PermStrings, MaxPerms)}

OtherSections == {<<>>} \cup {[k \in OtherKeys |-> v] : v \in OtherValues}

DeepHookDocs == {Document(h, AbsentSection, <<>>) : h \in DeepHookSections}
DeepPermDocs == {Document(AbsentSection, p, <<>>) : p \in DeepPermSections}
DeepDocs == DeepHookDocs \cup DeepPermDocs

\* Small documents: at most one hook entry or permission string each.
SmallHookSections ==
    {MapSection(<<>>),
     MapSection([t \in {"PreToolUse"} |-> ListVal(<<>>)]),
     MapSection([t \in {"PreToolUse"} |-> ListVal(<<MatcherGroup("Bash", <<>>)>>)]),
     MapSection([t \in {"PostToolUse"} |->
                   ListVal(<<MatcherGroup("Bash",
                                          <<HookEntry("python3 .claude/hooks/x.py", "Check x")>>)>>)])}
    \cup {MapSection([t \in {"PreToolUse"} |-> ListVal(<<MatcherGroup(m, <<e>>)>>)]) :
            m \in Matchers, e \in EntryPool}

SmallPermSections ==
    {MapSection(<<>>),
     MapSection([k \in {"allow"} |-> ListVal(<<"Skill(a)">>)]),
     MapSection([k \in {"allow"} |-> ListVal(<<"Skill(b)">>)]),
     MapSection([k \in {"deny"} |-> ListVal(<<"Skill(a)">>)])}

SmallHookDocs == {Document(h, AbsentSection, <<>>) : h \in SmallHookSections}

SmallDocs ==
    SmallHookDocs
    \cup {Document(AbsentSection, p, <<>>) : p \in SmallPermSections}
    \cup {Document(AbsentSection, AbsentSection, o) : o \in OtherSections}

\* Documents with all three sections.
MixedDocs ==
    {Document(h, p, o) :
        h \in {AbsentSection,
               MapSection([t \in {"PreToolUse"} |->
                   ListVal(<<MatcherGroup("Bash",
                                          <<HookEntry("bash .claude/hooks/y.sh", "Check y")>>)>>)])},
        p \in {AbsentSection,
               MapSection([k \in {"allow"} |-> ListVal(<<"Skill(a)">>)]),
               MapSection([k \in PermTypes |->
                             IF k = "ask" THEN ListVal(<<"Bash(ls)">>) ELSE ListVal(<<>>)])},
        o \in OtherSections}

\* Documents that violate the SettingsDocument shape.
ScalarSection == [kind |-> "scalar", m |-> <<>>]
ScalarVal == [kind |-> "scalar", list |-> <<>>]
StrVal(chars) == [kind |-> "str", list |-> chars]
NonDict == [isDict |-> FALSE, hooks |-> AbsentSection, permissions |-> AbsentSection,
            other |-> <<>>]
NoMatcherGroup(hs) == [hasMatcher |-> FALSE, matcher |-> "", hooks |-> hs]
NoCommandEntry(s) == [hasCommand |-> FALSE, command |-> "", statusMessage |-> s]

MalformedDocs ==
    {NonDict,
     Document(ScalarSection, AbsentSection, <<>>),
     Document(AbsentSection, ScalarSection, <<>>)}
    \cup {Document(MapSection([t \in {"PreToolUse"} |-> v]), AbsentSection, <<>>) :
            v \in {ScalarVal, StrVal(<<>>), StrVal(<<"a", "b">>),
                   ListVal(<<NoMatcherGroup(<<HookEntry("bash .claude/hooks/y.sh", "Check y")>>)>>),
                   ListVal(<<MatcherGroup("Bash", <<NoCommandEntry("Check y")>>)>>)}}
    \cup {Document(AbsentSection, MapSection([k \in {"allow"} |-> v]), <<>>) :
            v \in {ScalarVal, StrVal(<<"l", "s">>)}}
    \cup {Document(AbsentSection, MapSection([k \in {"other"} |-> ListVal(<<"Skill(a)">>)]), <<>>)}

\* Well-formed documents that are not in canonical form.
NonCanonicalDocs ==
    {Document(MapSection([t \in {"PreToolUse"} |-> ListVal(gl)]), AbsentSection, <<>>) :
        gl \in {<<MatcherGroup("Bash", <<HookEntry("bash .claude/hooks/y.sh", "Check y"),
                                         HookEntry("bash .claude/hooks/y.sh", "Old y")>>)>>,
                <<MatcherGroup("Bash", <<HookEntry("python3 .claude/hooks/x.py", "Old x")>>),
                  MatcherGroup("Edit", <<>>),
                  MatcherGroup("Bash", <<HookEntry("bash .claude/hooks/y.sh", "Check y")>>)>>}}
    \cup {Document(AbsentSection,
                   MapSection([k \in {"allow"} |-> ListVal(<<"Skill(b)", "Skill(b)">>)]),
                   <<>>)}

FilePool ==
    {AbsentFile, GarbageFile}
    \cup {JsonFile(d) : d \in SmallDocs \cup MixedDocs \cup NonCanonicalDocs \cup MalformedDocs}

\* The argument lists with documents of the wrong shape.
RawArgLists == UNION {[1..n -> SmallDocs \cup MalformedDocs] : n \in 1..MaxDocs}

\* The argument lists explored: long lists of small documents, and short
\* lists of deep ones.
ArgLists ==
    UNION {[1..n -> SmallDocs] : n \in 1..MaxDocs}
    \cup UNION {[1..n -> SmallDocs \cup MixedDocs] : n \in 1..2}
    \cup UNION {[1..n -> DeepHookDocs] : n \in 1..2}
    \cup UNION {[1..n -> DeepPermDocs] : n \in 1..2}
    \cup {<<d, f>> : d \in DeepDocs, f \in SmallDocs}
    \cup {<<d, f>> : d \in SmallDocs, f \in DeepDocs}
    \cup {<<d, f1, f2>> : d \in DeepHookDocs, f1 \in SmallHookDocs, f2 \in SmallHookDocs}

\* ------------------------------------------------------------------------
\* State
\* ------------------------------------------------------------------------
VARIABLES
    settings_dicts,   \* the arguments of the merge_settings call under test
    result,           \* what that call returned or raised
    pc,               \* the position of the program
    file,             \* the content of <target>/.claude/settings.local.json
    before,           \* the content of that file when the run started
    todo,             \* main: the managers still to run
    all_settings,     \* main: the fragments collected so far
    merged,           \* main: merge_settings(*all_settings)
    existing,         \* update_settings_file: the loaded document
    to_write          \* update_settings_file: its local `merged`

vars == <<settings_dicts, result, pc, file, before, todo, all_settings, merged,
          existing, to_write>>

NoResult == [err |-> FALSE, doc |-> EmptyDoc]

\* ------------------------------------------------------------------------
\* A call of merge_settings
\* ------------------------------------------------------------------------
NoInstall ==
    /\ file = AbsentFile /\ before = AbsentFile
    /\ todo = <<>> /\ all_settings = <<>>
    /\ merged = NoResult /\ existing = EmptyDoc /\ to_write = EmptyDoc

CallMerge ==
    /\ pc = "call"
    /\ result' = merge_settings(settings_dicts)
    /\ pc' = "returned"
    /\ UNCHANGED <<settings_dicts, file, before, todo, all_settings, merged,
                   existing, to_write>>

NextMerge == CallMerge

\* Well-formed arguments.
InitMerge ==
    /\ settings_dicts \in ArgLists
    /\ result = NoResult
    /\ pc = "call"
    /\ NoInstall

SpecMerge == InitMerge /\ [][NextMerge]_vars

\* Arguments of any shape.
InitRaw ==
    /\ settings_dicts \in RawArgLists
    /\ result = NoResult
    /\ pc = "call"
    /\ NoInstall

SpecRaw == InitRaw /\ [][NextMerge]_vars

\* ------------------------------------------------------------------------
\* One install run of main
\* ------------------------------------------------------------------------
ManagerOrder == <<"agents", "commands", "hooks", "skills">>

Init ==
    /\ settings_dicts = <<>>
    /\ result = NoResult
    /\ pc = "install"
    /\ file \in FilePool
    /\ before = file
    /\ todo \in {ManagerOrder} \cup {<<ManagerOrder[i]>> : i \in DOMAIN ManagerOrder}
    /\ all_settings = <<>>
    /\ merged = NoResult
    /\ existing = EmptyDoc
    /\ to_write = EmptyDoc

\* AgentManager.install returns {}; main appends it to all_settings.
InstallAgents ==
    /\ pc = "install"
    /\ todo # <<>> /\ Head(todo) = "agents"
    /\ all_settings' = Append(all_settings, EmptyDoc)
    /\ todo' = Tail(todo)
    /\ UNCHANGED <<settings_dicts, result, pc, file, before, merged, existing, to_write>>

\* CommandManager.install for any selection of commands.
InstallCommands ==
    /\ pc = "install"
    /\ todo # <<>> /\ Head(todo) = "commands"
    /\ \E commands \in SeqsUpTo(CommandStems, MaxItems) :
         all_settings' = Append(all_settings, install_commands(commands))
    /\ todo' = Tail(todo)
    /\ UNCHANGED <<settings_dicts, result, pc, file, before, merged, existing, to_write>>

\* HookManager.install for any selection of hooks.
InstallHooks ==
    /\ pc = "install"
    /\ todo # <<>> /\ Head(todo) = "hooks"
    /\ \E hooks \in SeqsUpTo(HookDefs, MaxItems) :
         all_settings' = Append(all_settings, install_hooks(hooks))
    /\ todo' = Tail(todo)
    /\ UNCHANGED <<settings_dicts, result, pc, file, before, merged, existing, to_write>>

\* SkillManager.install returns {}.
InstallSkills ==
    /\ pc = "install"
    /\ todo # <<>> /\ Head(todo) = "skills"
    /\ all_settings' = Append(all_settings, EmptyDoc)
    /\ todo' = Tail(todo)
    /\ UNCHANGED <<settings_dicts, result, pc, file, before, merged, existing, to_write>>

\* merged = merge_settings(*all_settings); if merged: ...
MergeFragments ==
    /\ pc = "install" /\ todo = <<>>
    /\ merged' = merge_settings(all_settings)
    /\ pc' = IF merged'.err THEN "error"
             ELSE IF NonEmptyDict(merged'.doc) THEN "read" ELSE "done"
    /\ UNCHANGED <<settings_dicts, result, file, before, todo, all_settings,
                   existing, to_write>>

\* update_settings_file: load the existing settings if present.
ReadExisting ==
    /\ pc = "read"
    /\ \/ /\ file.kind = "absent"
          /\ existing' = EmptyDoc
          /\ pc' = "merge"
       \/ /\ file.kind = "json"
          /\ existing' = file.doc
          /\ pc' = "merge"
       \/ /\ file.kind = "garbage"
          /\ pc' = "error"
          /\ UNCHANGED existing
    /\ UNCHANGED <<settings_dicts, result, file, before, todo, all_settings,
                   merged, to_write>>

\* update_settings_file: merge the new settings into the existing ones.
MergeExisting ==
    /\ pc = "merge"
    /\ LET m == merge_into_existing(existing, merged.doc)
       IN  /\ to_write' = m.doc
           /\ pc' = IF m.err THEN "error" ELSE "write"
    /\ UNCHANGED <<settings_dicts, result, file, before, todo, all_settings,
                   merged, existing>>

\* update_settings_file: write back.
WriteBack ==
    /\ pc = "write"
    /\ file' = JsonFile(to_write)
    /\ pc' = "done"
    /\ UNCHANGED <<settings_dicts, result, before, todo, all_settings, merged,
                   existing, to_write>>

Next ==
    \/ InstallAgents
    \/ InstallCommands
    \/ InstallHooks
    \/ InstallSkills
    \/ MergeFragments
    \/ ReadExisting
    \/ MergeExisting
    \/ WriteBack

Spec == Init /\ [][Next]_vars

\* ------------------------------------------------------------------------
\* What the arguments of a call contribute, read off the arguments alone
\* ------------------------------------------------------------------------
ret == result.doc

Returned == pc = "returned" /\ ~result.err

GroupsOf(d, t) ==
    IF d.hooks.kind = "map" /\ t \in DOMAIN d.hooks.m THEN d.hooks.m[t].list ELSE <<>>

\* The matcher groups given under hook type t, in merge order.
InputGroups(ds, t) == ConcatAll([i \in DOMAIN ds |-> GroupsOf(ds[i], t)])

\* The hook entries given under (t, m), in merge order.
InputEntries(ds, t, m) ==
    LET G == InputGroups(ds, t)
    IN  ConcatAll([i \in DOMAIN G |-> IF G[i].matcher = m THEN G[i].hooks ELSE <<>>])

PermsOf(d, k) ==
    IF d.permissions.kind = "map" /\ k \in DOMAIN d.permissions.m
    THEN d.permissions.m[k].list ELSE <<>>

\* The permission strings given for kind k, in merge order.
InputPerms(ds, k) == ConcatAll([i \in DOMAIN ds |-> PermsOf(ds[i], k)])

InputHookTypes(ds) ==
    UNION {IF ds[i].hooks.kind = "map" THEN DOMAIN ds[i].hooks.m ELSE {} : i \in DOMAIN ds}

CommandsOf(hs) == [i \in DOMAIN hs |-> hs[i].command]
MatchersOf(gs) == [i \in DOMAIN gs |-> gs[i].matcher]

NoDuplicates(s) == \A i, j \in DOMAIN s : i # j => s[i] # s[j]

FirstAt(s, x) == CHOOSE i \in DOMAIN s : s[i] = x /\ \A j \in 1..(i - 1) : s[j] # x

\* out lists each value of s once, in the order of the first occurrences.
IsFirstOccurrences(out, s) ==
    /\ NoDuplicates(out)
    /\ Range(out) = Range(s)
    /\ \A i, j \in DOMAIN out : i < j => FirstAt(s, out[i]) < FirstAt(s, out[j])

IsPrefix(s, t) == Len(s) <= Len(t) /\ \A i \in DOMAIN s : s[i] = t[i]

\* C1: applying a fragment F a second time changes nothing:
\* merge_settings(merge_settings(D, F), F) = merge_settings(D, F).
Thm_C1 ==
    (Returned /\ Len(settings_dicts) = 2) =>
        LET again == merge_settings(<<ret, settings_dicts[2]>>)
        IN  ~again.err /\ again.doc = ret

\* D and F both give hook entries under one (hook type, matcher) and the
\* first application changed D.
Wit_C1 ==
    /\ Returned /\ Len(settings_dicts) = 2
    /\ ret # settings_dicts[1]
    /\ \E t \in HookTypes, m \in Matchers :
         /\ InputEntries(<<settings_dicts[2]>>, t, m) # <<>>
         /\ InputEntries(<<settings_dicts[1]>>, t, m) # <<>>

\* C2: in every matcher group of the output the commands are pairwise
\* distinct, every command given under that (hook type, matcher) is kept
\* once, the entry kept is the first one given with that command
\* (statusMessage included), and the kept entries are in arrival order.
Thm_C2 ==
    Returned =>
        \A t \in DOMAIN ret.hooks.m : \A n \in DOMAIN ret.hooks.m[t].list :
            LET g == ret.hooks.m[t].list[n]
                given == InputEntries(settings_dicts, t, g.matcher)
            IN  /\ IsFirstOccurrences(CommandsOf(g.hooks), CommandsOf(given))
                /\ \A i \in DOMAIN g.hooks :
                     g.hooks[i] = given[FirstAt(CommandsOf(given), g.hooks[i].command)]

\* Two documents give the same command under one (hook type, matcher) with
\* different status messages, and a different command arrives between or
\* after them.
Wit_C2 ==
    /\ Returned
    /\ \E t \in HookTypes, m \in Matchers :
         LET given == InputEntries(settings_dicts, t, m)
         IN  /\ \E i, j \in DOMAIN given :
                  /\ i < j
                  /\ given[i].command = given[j].command
                  /\ given[i].statusMessage # given[j].statusMessage
             /\ Cardinality(Range(CommandsOf(given))) >= 2
             /\ InputEntries(<<settings_dicts[1]>>, t, m) # given

\* C3: under every hook type the output has one group per distinct matcher
\* given, the groups are ordered by the first appearance of their matcher,
\* and a group holds the entries given under its matcher in merge order.
Thm_C3 ==
    Returned =>
        /\ InputHookTypes(settings_dicts) =
             (IF ret.hooks.kind = "map" THEN DOMAIN ret.hooks.m ELSE {})
        /\ \A t \in DOMAIN ret.hooks.m :
             LET out == ret.hooks.m[t].list
             IN  /\ IsFirstOccurrences(MatchersOf(out),
                                       MatchersOf(InputGroups(settings_dicts, t)))
                 /\ \A n \in DOMAIN out :
                      LET given == InputEntries(settings_dicts, t, out[n].matcher)
                      IN  /\ Range(CommandsOf(out[n].hooks)) = Range(CommandsOf(given))
                          /\ NoDuplicates(CommandsOf(given)) => out[n].hooks = given

\* Three groups arrive under one hook type, the first and the last with the
\* same matcher and different commands, and are merged into two groups.
Wit_C3 ==
    /\ Returned
    /\ \E t \in HookTypes :
         LET G == InputGroups(settings_dicts, t)
         IN  /\ Len(G) >= 3
             /\ G[1].matcher = G[3].matcher /\ G[1].matcher # G[2].matcher
             /\ G[1].hooks # <<>> /\ G[3].hooks # <<>>
             /\ G[1].hooks[1].command # G[3].hooks[1].command
             /\ Len(ret.hooks.m[t].list) = 2
             /\ Len(ret.hooks.m[t].list[1].hooks) = 2

\* C4: each permission list of the output has no duplicate, holds exactly
\* the strings given for that list, in order of first occurrence.
Thm_C4 ==
    Returned =>
        /\ ret.permissions.kind = "map" <=>
             \E i \in DOMAIN settings_dicts : settings_dicts[i].permissions.kind = "map"
        /\ ret.permissions.kind = "map" =>
             /\ DOMAIN ret.permissions.m = PermTypes
             /\ \A k \in PermTypes :
                  IsFirstOccurrences(ret.permissions.m[k].list,
                                     InputPerms(settings_dicts, k))

\* Three or more strings are given for allow, one of them twice, and the
\* output lists two.
Wit_C4 ==
    /\ Returned
    /\ Len(InputPerms(settings_dicts, "allow")) >= 3
    /\ ~NoDuplicates(InputPerms(settings_dicts, "allow"))
    /\ Len(ret.permissions.m["allow"].list) = 2

\* C5: the output has no empty `hooks` object and no empty hook-type list,
\* a hook type is in the output only if some input gave a non-empty list
\* for it, and merging empty documents gives the empty document.
Claim_C5 ==
    Returned =>
        /\ ret.hooks.kind = "map" => DOMAIN ret.hooks.m # {}
        /\ \A t \in DOMAIN ret.hooks.m :
             /\ ret.hooks.m[t].list # <<>>
             /\ InputGroups(settings_dicts, t) # <<>>
        /\ (\A i \in DOMAIN settings_dicts : settings_dicts[i] = EmptyDoc) => ret = EmptyDoc

\* C6: for fragments F1, F2 with disjoint commands and permission strings,
\* merge_settings(D, F1, F2) and merge_settings(D, F2, F1) hold the same
\* set of hook entries under every (hook type, matcher) and the same set of
\* strings in every permission list, the commands and strings are the union
\* of those of D, F1 and F2, and the chain built from D and F1 is a prefix
\* of the chain after F2 is merged too.
CommandSet(d, t, m) == Range(CommandsOf(InputEntries(<<d>>, t, m)))

DisjointFragments(f1, f2) ==
    /\ \A t \in HookTypes, m \in Matchers : CommandSet(f1, t, m) \cap CommandSet(f2, t, m) = {}
    /\ \A k \in PermTypes : Range(PermsOf(f1, k)) \cap Range(PermsOf(f2, k)) = {}

Thm_C6 ==
    (/\ Returned /\ Len(settings_dicts) = 3
     /\ DisjointFragments(settings_dicts[2], settings_dicts[3])) =>
        LET D == settings_dicts[1]
            F1 == settings_dicts[2]
            F2 == settings_dicts[3]
            swapped == merge_settings(<<D, F2, F1>>).doc
            partial == merge_settings(<<D, F1>>).doc
        IN  /\ \A t \in HookTypes, m \in Matchers :
                 /\ Range(InputEntries(<<ret>>, t, m)) = Range(InputEntries(<<swapped>>, t, m))
                 /\ CommandSet(ret, t, m) =
                      CommandSet(D, t, m) \cup CommandSet(F1, t, m) \cup CommandSet(F2, t, m)
                 /\ IsPrefix(InputEntries(<<partial>>, t, m), InputEntries(<<ret>>, t, m))
            /\ \A k \in PermTypes :
                 /\ Range(PermsOf(ret, k)) = Range(PermsOf(swapped, k))
                 /\ Range(PermsOf(ret, k)) =
                      Range(PermsOf(D, k)) \cup Range(PermsOf(F1, k)) \cup Range(PermsOf(F2, k))

\* D, F1 and F2 each give an entry under one (hook type, matcher), F1 and
\* F2 with different commands, the merged chain holds the three commands, and
\* the two orders of the fragments give different chains.
Wit_C6 ==
    /\ Returned /\ Len(settings_dicts) = 3
    /\ DisjointFragments(settings_dicts[2], settings_dicts[3])
    /\ \E t \in HookTypes, m \in Matchers :
         /\ \A i \in 1..3 : CommandSet(settings_dicts[i], t, m) # {}
         /\ Cardinality(CommandSet(ret, t, m)) = 3
         /\ InputEntries(<<ret>>, t, m) #
              InputEntries(<<merge_settings(<<settings_dicts[1], settings_dicts[3],
                                              settings_dicts[2]>>).doc>>, t, m)

\* C7: a document in canonical form is returned unchanged by
\* merge_settings(D) and by merge_settings(D, {}).
Canonical(d) ==
    /\ d.isDict
    /\ d.hooks.kind \in {"absent", "map"}
    /\ d.hooks.kind = "map" =>
         /\ DOMAIN d.hooks.m # {}
         /\ \A t \in DOMAIN d.hooks.m :
              LET gs == d.hooks.m[t]
              IN  /\ gs.kind = "list" /\ gs.list # <<>>
                  /\ NoDuplicates(MatchersOf(gs.list))
                  /\ \A n \in DOMAIN gs.list :
                       /\ gs.list[n].hasMatcher
                       /\ gs.list[n].hooks # <<>>
                       /\ \A i \in DOMAIN gs.list[n].hooks : gs.list[n].hooks[i].hasCommand
                       /\ NoDuplicates(CommandsOf(gs.list[n].hooks))
    /\ d.permissions.kind \in {"absent", "map"}
    /\ d.permissions.kind = "map" =>
         /\ DOMAIN d.permissions.m = PermTypes
         /\ \A k \in PermTypes :
              d.permissions.m[k].kind = "list" /\ NoDuplicates(d.permissions.m[k].list)

Thm_C7 ==
    (/\ Returned
     /\ Canonical(settings_dicts[1])
     /\ \/ Len(settings_dicts) = 1
        \/ Len(settings_dicts) = 2 /\ settings_dicts[2] = EmptyDoc) =>
        ret = settings_dicts[1]

\* A canonical document with two matcher groups, or with two hook entries
\* in one group, or with a permission list of two strings, was merged with
\* the empty document.
Wit_C7 ==
    /\ Returned
    /\ Len(settings_dicts) = 2 /\ settings_dicts[2] = EmptyDoc
    /\ Canonical(settings_dicts[1])
    /\ \/ \E t \in DOMAIN settings_dicts[1].hooks.m :
            \/ Len(settings_dicts[1].hooks.m[t].list) = 2
            \/ Len(settings_dicts[1].hooks.m[t].list[1].hooks) = 2
       \/ /\ settings_dicts[1].permissions.kind = "map"
          /\ Len(settings_dicts[1].permissions.m["allow"].list) = 2

\* The SettingsDocument shape: `hooks` maps hook types to lists of matcher
\* groups with a matcher and entries with a command, `permissions` maps
\* allow, deny and ask to lists of strings; every key is optional.
ValidDoc(d) ==
    /\ d.isDict
    /\ d.hooks.kind \in {"absent", "map"}
    /\ d.hooks.kind = "map" =>
         \A t \in DOMAIN d.hooks.m :
            /\ d.hooks.m[t].kind = "list"
            /\ \A n \in DOMAIN d.hooks.m[t].list :
                 /\ d.hooks.m[t].list[n].hasMatcher
                 /\ \A i \in DOMAIN d.hooks.m[t].list[n].hooks :
                      d.hooks.m[t].list[n].hooks[i].hasCommand
    /\ d.permissions.kind \in {"absent", "map"}
    /\ d.permissions.kind = "map" =>
         /\ DOMAIN d.permissions.m \subseteq PermTypes
         /\ \A k \in DOMAIN d.permissions.m : d.permissions.m[k].kind = "list"

\* C8: merge_settings raises whenever one of its arguments violates the
\* SettingsDocument shape, and does not raise when all of them have it.
Claim_C8 ==
    pc = "returned" =>
        /\ (\E i \in DOMAIN settings_dicts : ~ValidDoc(settings_dicts[i])) => result.err
        /\ (\A i \in DOMAIN settings_dicts : ValidDoc(settings_dicts[i])) => ~result.err

\* The file exists and holds a settings document of the right shape, or
\* does not exist.
ValidFile(f) == f.kind = "absent" \/ (f.kind = "json" /\ ValidDoc(f.doc))

\* update_settings_file was called in this run.
Updating == pc \in {"read", "merge", "write"} \/ (~merged.err /\ NonEmptyDict(merged.doc))

\* C9: when the existing file is no valid settings document,
\* update_settings_file ends in an error and the file keeps the content it
\* had before the run.
Claim_C9 ==
    (Updating /\ pc \in {"done", "error"} /\ ~ValidFile(before)) =>
        (pc = "error" /\ file = before)

\* The document persisted in a file; no file counts as the empty document.
PersistedDoc(f) == IF f.kind = "absent" THEN EmptyDoc ELSE f.doc

\* C10 as stated: at the end of a run over a valid persisted document E the
\* persisted document is merge_settings(E, F1, ..., Fn).
Claim_C10 ==
    (pc = "done" /\ ValidFile(before)) =>
        PersistedDoc(file) = merge_settings(<<PersistedDoc(before)>> \o all_settings).doc

\* C10 as amended: at the end of a run over a valid persisted document E,
\* when merge_settings(F1, ..., Fn) is non-empty the file holds
\* merge_settings(E, F1, ..., Fn); when it is empty the file is left as it
\* was.
Thm_C10 ==
    (pc = "done" /\ ValidFile(before)) =>
        IF NonEmptyDict(merge_settings(all_settings).doc)
        THEN file = JsonFile(merge_settings(<<PersistedDoc(before)>> \o all_settings).doc)
        ELSE file = before

\* A run of all four managers with hooks and commands selected wrote the
\* merge over a persisted document that was not canonical and had a hook in
\* common with the new fragment.
Wit_C10 ==
    /\ pc = "done" /\ before.kind = "json" /\ ValidDoc(before.doc)
    /\ ~Canonical(before.doc)
    /\ Len(all_settings) = 4
    /\ NonEmptyDict(all_settings[2]) /\ NonEmptyDict(all_settings[3])
    /\ file # before
    /\ \E t \in HookTypes, m \in Matchers :
         CommandSet(before.doc, t, m) \cap CommandSet(all_settings[3], t, m) # {}

=============================================================================
